---- MODULE Spec2Model ----
(***************************************************************************)
(* microschema: a fluent builder of JSON Schema fragments.                 *)
(*                                                                         *)
(* The model keeps the JavaScript heap the library works on: builder       *)
(* objects (the exported base object and the objects chain() derives from  *)
(* it), the fragments the constructors return, the arrays they hold, and   *)
(* the option objects a caller passes in.  Objects are referred to by      *)
(* their index in a heap sequence, so that sharing ("by reference") and    *)
(* in-place mutation are visible.  JavaScript strings that the library     *)
(* parses are sequences of one-character strings.                          *)
(***************************************************************************)
EXTENDS Integers, Sequences, FiniteSets, TLC

VARIABLES builders, frags, arrays, opts, last

vars == <<builders, frags, arrays, opts, last>>

(***************************************************************************)
(* Bounds of the model.                                                    *)
(***************************************************************************)
MaxBuilders == 3
MaxFrags == 3

(***************************************************************************)
(* JavaScript strings used as inputs.                                      *)
(***************************************************************************)
S_string == <<"s", "t", "r", "i", "n", "g">>
S_null == <<"n", "u", "l", "l">>
S_object == <<"o", "b", "j", "e", "c", "t">>
S_array == <<"a", "r", "r", "a", "y">>
S_number == <<"n", "u", "m", "b", "e", "r">>
S_boolean == <<"b", "o", "o", "l", "e", "a", "n">>
S_required == <<"r", "e", "q", "u", "i", "r", "e", "d">>
S_uri == <<"u", "r", "i">>
S_foo == <<"f", "o", "o">>
Colon == ":"

(***************************************************************************)
(* JavaScript values held in arrays and in enum / const.                   *)
(***************************************************************************)
JsStr(s) == [k |-> "string", s |-> s, n |-> 0]
JsNum(n) == [k |-> "number", s |-> <<>>, n |-> n]
JsArr(r) == [k |-> "array", s |-> <<>>, n |-> r]
JsNull == [k |-> "null", s |-> <<>>, n |-> 0]
JsUndefined == [k |-> "undefined", s |-> <<>>, n |-> 0]
JsBool(b) == [k |-> "boolean", s |-> <<>>, n |-> IF b THEN 1 ELSE 0]
\* a reference to a fragment (or any other plain object)
JsObj(r) == [k |-> "object", s |-> <<>>, n |-> r]

\* ToBoolean
Truthy(v) ==
  CASE v.k = "string" -> v.s # <<>>
    [] v.k = "number" -> v.n # 0
    [] v.k = "boolean" -> v.n = 1
    [] v.k \in {"null", "undefined"} -> FALSE
    [] OTHER -> TRUE

(***************************************************************************)
(* Builder objects.  proto = 0 is Object.prototype; the base builder is    *)
(* builders[1] and has no own symbol property.  hist is the sequence of    *)
(* chaining accesses that were made on the object.                         *)
(***************************************************************************)
Base == 1

NoChained == [keys |-> {}, id |-> "", definitions |-> ""]

BaseBuilder ==
  [proto |-> 0, ownRequired |-> FALSE, ownChained |-> FALSE,
   chained |-> NoChained, hist |-> <<>>]

RECURSIVE GetIsRequired(_, _)
GetIsRequired(bs, b) ==
  IF b = 0 THEN FALSE
  ELSE IF bs[b].ownRequired THEN TRUE
  ELSE GetIsRequired(bs, bs[b].proto)

RECURSIVE HasChained(_, _)
HasChained(bs, b) ==
  IF b = 0 THEN FALSE
  ELSE IF bs[b].ownChained THEN TRUE
  ELSE HasChained(bs, bs[b].proto)

RECURSIVE GetChained(_, _)
GetChained(bs, b) ==
  IF b = 0 THEN NoChained
  ELSE IF bs[b].ownChained THEN bs[b].chained
  ELSE GetChained(bs, bs[b].proto)

\* the pending state a constructor invoked on b applies
Pending(bs, b) ==
  [required |-> GetIsRequired(bs, b), chained |-> GetChained(bs, b)]

(***************************************************************************)
(* chain(self): the receiver itself when it already carries a chained      *)
(* record (own or inherited), otherwise a new object that delegates to it. *)
(* The result is the heap after the call and the object returned.          *)
(***************************************************************************)
\* chain(self) that sets the chained record on the receiver itself
chainInPlace(bs, self) ==
  IF HasChained(bs, self)
  THEN [bs |-> bs, ref |-> self]
  ELSE [bs |-> [bs EXCEPT ![self].ownChained = TRUE], ref |-> self]

chain(bs, self) ==
  IF HasChained(bs, self)
  THEN [bs |-> bs, ref |-> self]
  ELSE [bs |-> Append(bs, [proto |-> self, ownRequired |-> FALSE,
                           ownChained |-> TRUE, chained |-> NoChained,
                           hist |-> bs[self].hist]),
        ref |-> Len(bs) + 1]

\* the object that holds the chained record b reads
RECURSIVE ChainedOwner(_, _)
ChainedOwner(bs, b) ==
  IF bs[b].ownChained \/ bs[b].proto = 0 THEN b
  ELSE ChainedOwner(bs, bs[b].proto)

Ids == {"x", "y"}
Defs == {"d"}

ChainOps == {"required", "$id", "definitions"}

NoPm == <<>>
NoArgs == <<>>

\* the record of the last call: the method, its receiver, what it returned
\* (res = 0: nothing), the receiver's pending state before the call, the
\* arguments (pm: property map, o: options object, args: rest arguments,
\* arg: a string argument) and the message of the error it threw, if any
Call(op, self, res, pre, pm, o, args, arg) ==
  [op |-> op, self |-> self, res |-> res, pre |-> pre, pm |-> pm, o |-> o,
   args |-> args, arg |-> arg, err |-> ""]

CanChain(b) == HasChained(builders, b) \/ Len(builders) < MaxBuilders

\* get required ()
Required(b) ==
  /\ CanChain(b)
  /\ LET c == chain(builders, b)
         self == c.ref
     IN /\ builders' = [c.bs EXCEPT ![self].ownRequired = TRUE,
                                   ![self].hist = Append(@, <<"required", "">>)]
        /\ last' = Call("required", b, self, Pending(builders, b), NoPm, 0, NoArgs, "")
  /\ UNCHANGED <<frags, arrays, opts>>

\* $id (id) that replaces the chained record instead of adding to it
SetIdOverwrite(b, id) ==
  /\ CanChain(b)
  /\ LET c == chain(builders, b)
         self == c.ref
         owner == ChainedOwner(c.bs, self)
     IN /\ builders' = [c.bs EXCEPT ![owner].chained = [NoChained EXCEPT !.keys = {"$id"}, !.id = id],
                                   ![self].hist = Append(@, <<"$id", id>>)]
        /\ last' = Call("$id", b, self, Pending(builders, b), NoPm, 0, NoArgs, id)
  /\ UNCHANGED <<frags, arrays, opts>>

\* $id (id)
SetId(b, id) ==
  /\ CanChain(b)
  /\ LET c == chain(builders, b)
         self == c.ref
         owner == ChainedOwner(c.bs, self)
     IN /\ builders' = [c.bs EXCEPT ![owner].chained.keys = @ \cup {"$id"},
                                   ![owner].chained.id = id,
                                   ![self].hist = Append(@, <<"$id", id>>)]
        /\ last' = Call("$id", b, self, Pending(builders, b), NoPm, 0, NoArgs, id)
  /\ UNCHANGED <<frags, arrays, opts>>

\* definitions (obj)
Definitions(b, d) ==
  /\ CanChain(b)
  /\ LET c == chain(builders, b)
         self == c.ref
         owner == ChainedOwner(c.bs, self)
     IN /\ builders' = [c.bs EXCEPT ![owner].chained.keys = @ \cup {"definitions"},
                                   ![owner].chained.definitions = d,
                                   ![self].hist = Append(@, <<"definitions", d>>)]
        /\ last' = Call("definitions", b, self, Pending(builders, b), NoPm, 0, NoArgs, d)
  /\ UNCHANGED <<frags, arrays, opts>>

(***************************************************************************)
(* Fragments.  keys is the set of own string keys of the object; a field   *)
(* is meaningful only when its key is in keys.  marked is the hidden       *)
(* isRequired symbol property.  The value of type is the string type, or   *)
(* the array arrays[typeArr] when typeArr > 0.  properties is the ordered  *)
(* mapping of property names to fragments; required, enum are arrays.      *)
(***************************************************************************)
NewFrag ==
  [keys |-> {}, marked |-> FALSE, type |-> <<>>, typeArr |-> 0,
   properties |-> <<>>, required |-> 0, id |-> "", definitions |-> "",
   ref |-> "", enum |-> 0, const |-> JsUndefined, anyOf |-> <<>>,
   format |-> <<>>, minLength |-> 0, maxLength |-> 0,
   oneOf |-> <<>>, allOf |-> 0, pattern |-> <<>>,
   minimum |-> JsUndefined, maximum |-> JsUndefined, items |-> 0,
   minItems |-> JsUndefined, maxItems |-> JsUndefined,
   uniqueItems |-> JsUndefined]

TypeFrag(t) == [NewFrag EXCEPT !.keys = {"type"}, !.type = t]

\* an assignment of $id alone
AssignChainedIdOnly(obj, c) ==
  [obj EXCEPT !.keys = @ \cup (c.keys \cap {"$id"}),
              !.id = IF "$id" \in c.keys THEN c.id ELSE @]

\* Object.assign(obj, self[chained])
AssignChained(obj, c) ==
  [obj EXCEPT !.keys = @ \cup c.keys,
              !.id = IF "$id" \in c.keys THEN c.id ELSE @,
              !.definitions = IF "definitions" \in c.keys THEN c.definitions ELSE @]

\* decorate (self, obj) that forgets the isRequired symbol
decorateNoMark(bs, self, obj) ==
  IF HasChained(bs, self) THEN AssignChained(obj, GetChained(bs, self)) ELSE obj

\* decorate (self, obj)
decorate(bs, self, obj) ==
  LET o1 == IF GetIsRequired(bs, self) THEN [obj EXCEPT !.marked = TRUE] ELSE obj
  IN IF HasChained(bs, self) THEN AssignChained(o1, GetChained(bs, self)) ELSE o1

Room(n) == Len(frags) + n <= MaxFrags

isString(v) == v.k = "string"

isNumber(v) == v.k = "number"

\* getJsonType (obj)
getJsonType(v) ==
  IF isString(v) THEN S_string
  ELSE IF v.k = "array" THEN S_array
  ELSE IF isNumber(v) THEN S_number
  ELSE IF v.k \in {"null", "undefined"} THEN S_null
  ELSE S_object

(***************************************************************************)
(* String.prototype.split(':')                                             *)
(***************************************************************************)
RECURSIVE SplitFrom(_, _, _)
SplitFrom(str, i, cur) ==
  IF i > Len(str) THEN <<cur>>
  ELSE IF str[i] = Colon THEN <<cur>> \o SplitFrom(str, i + 1, <<>>)
  ELSE SplitFrom(str, i + 1, Append(cur, str[i]))

Split(str) == SplitFrom(str, 1, <<>>)

(***************************************************************************)
(* Math.floor(option) for a string option: the string is converted to a    *)
(* number first.  The empty string is 0; a decimal literal with an         *)
(* optional sign and an optional fraction is its value; anything else is   *)
(* NaN.  The result is [nan, n].                                           *)
(***************************************************************************)
Digits == <<"0", "1", "2", "3", "4", "5", "6", "7", "8", "9">>

IsDigit(c) == \E d \in 1..10 : Digits[d] = c

DigitVal(c) == (CHOOSE d \in 1..10 : Digits[d] = c) - 1

RECURSIVE DecVal(_, _)
DecVal(str, acc) ==
  IF str = <<>> THEN acc
  ELSE DecVal(Tail(str), acc * 10 + DigitVal(Head(str)))

AllDigits(str) == \A i \in 1..Len(str) : IsDigit(str[i])

DotAt(str) ==
  IF \E i \in 1..Len(str) : str[i] = "."
  THEN CHOOSE i \in 1..Len(str) : str[i] = "." /\ \A j \in 1..(i - 1) : str[j] # "."
  ELSE 0

\* an unsigned decimal literal: digits, digits '.' digits, '.' digits, digits '.'
UnsignedFloor(str) ==
  LET d == DotAt(str)
      ip == IF d = 0 THEN str ELSE SubSeq(str, 1, d - 1)
      fp == IF d = 0 THEN <<>> ELSE SubSeq(str, d + 1, Len(str))
      ok == /\ AllDigits(ip) /\ AllDigits(fp)
            /\ Len(ip) + Len(fp) > 0
      frac == \E i \in 1..Len(fp) : fp[i] # "0"
  IN [nan |-> ~ok, n |-> IF ok THEN DecVal(ip, 0) ELSE 0, frac |-> ok /\ frac]

MathFloor(option) ==
  IF option = <<>> THEN [nan |-> FALSE, n |-> 0]
  ELSE IF Head(option) = "-"
  THEN LET u == UnsignedFloor(Tail(option))
       IN [nan |-> u.nan,
           n |-> IF u.nan THEN 0 ELSE IF u.frac THEN 0 - u.n - 1 ELSE 0 - u.n]
  ELSE IF Head(option) = "+"
  THEN LET u == UnsignedFloor(Tail(option)) IN [nan |-> u.nan, n |-> u.n]
  ELSE LET u == UnsignedFloor(option) IN [nan |-> u.nan, n |-> u.n]

(***************************************************************************)
(* parseTypeDescription (parentSchema, name, typeDesc), in two parts: the  *)
(* property schema it returns with the number of times it pushes name on   *)
(* parentSchema.required (once per 'required' option), and the pushes.     *)
(***************************************************************************)
RECURSIVE ParseOptions(_, _, _)
ParseOptions(options, i, acc) ==
  IF i > Len(options) THEN acc
  ELSE LET option == options[i]
           a1 == IF option = S_uri
                 THEN [acc EXCEPT !.schema.keys = @ \cup {"format"},
                                  !.schema.format = S_uri]
                 ELSE acc
           a2 == IF option = S_required THEN [a1 EXCEPT !.req = @ + 1] ELSE a1
           f == MathFloor(option)
           a3 == IF ~f.nan /\ f.n # 0
                 THEN [a2 EXCEPT !.schema.keys = @ \cup {"minLength", "maxLength"},
                                 !.schema.minLength = 1,
                                 !.schema.maxLength = f.n]
                 ELSE a2
       IN ParseOptions(options, i + 1, a3)

parseTypeDescription(typeDesc) ==
  LET parts == Split(typeDesc)
  IN ParseOptions(Tail(parts), 1, [schema |-> TypeFrag(Head(parts)), req |-> 0])

\* parentSchema.required.unshift(name) in the place of push
RECURSIVE UnshiftRequired(_, _, _, _)
UnshiftRequired(st, p, name, n) ==
  IF n = 0 THEN st
  ELSE LET has == "required" \in st.frags[p].keys
           r == IF has THEN st.frags[p].required ELSE Len(st.arrays) + 1
           ar == IF has THEN [st.arrays EXCEPT ![r] = <<JsStr(name)>> \o @]
                 ELSE Append(st.arrays, <<JsStr(name)>>)
           fr == [st.frags EXCEPT ![p].keys = @ \cup {"required"},
                                  ![p].required = r]
       IN UnshiftRequired([st EXCEPT !.frags = fr, !.arrays = ar], p, name, n - 1)

\* parentSchema.required = parentSchema.required || []
\* parentSchema.required.push(name), n times, on the fragment p of the heap st
RECURSIVE PushRequired(_, _, _, _)
PushRequired(st, p, name, n) ==
  IF n = 0 THEN st
  ELSE LET has == "required" \in st.frags[p].keys
           r == IF has THEN st.frags[p].required ELSE Len(st.arrays) + 1
           ar == IF has THEN [st.arrays EXCEPT ![r] = Append(@, JsStr(name))]
                 ELSE Append(st.arrays, <<JsStr(name)>>)
           fr == [st.frags EXCEPT ![p].keys = @ \cup {"required"},
                                  ![p].required = r]
       IN PushRequired([st EXCEPT !.frags = fr, !.arrays = ar], p, name, n - 1)

\* jsonSchema.properties[propertyName] = propertySchema
SetProperty(props, name, c) ==
  IF \E i \in 1..Len(props) : props[i].name = name
  THEN [i \in 1..Len(props) |->
          IF props[i].name = name THEN [name |-> name, frag |-> c] ELSE props[i]]
  ELSE Append(props, [name |-> name, frag |-> c])

(***************************************************************************)
(* Option objects of the caller.  A field holds a JavaScript value and is  *)
(* undefined when its key is absent.                                       *)
(***************************************************************************)
NoOpts ==
  [strict |-> JsUndefined, required |-> JsUndefined,
   min |-> JsUndefined, max |-> JsUndefined, integer |-> JsUndefined,
   minItems |-> JsUndefined, maxItems |-> JsUndefined,
   uniqueItems |-> JsUndefined]

\* jsonSchema.properties[propertyName] = propertySchema, for the fragment
\* propertySchema that parseTypeDescription created
StoreProperty(st, p, propertyName, propertySchema) ==
  [st EXCEPT !.frags = [Append(st.frags, propertySchema) EXCEPT
                          ![p].properties = SetProperty(@, propertyName, Len(st.frags) + 1)]]

\* jsonSchema.properties[propertyName] = typeDesc, for the fragment c given
LinkProperty(st, p, propertyName, c) ==
  [st EXCEPT !.frags[p].properties = SetProperty(@, propertyName, c)]

\* the branch of the loop for a shorthand string, parsed
StoreParsed(st, p, propertyName, parsed) ==
  StoreProperty(PushRequired(st, p, propertyName, parsed.req), p, propertyName,
                parsed.schema)

\* one pass of the loop that goes on to the next property once it has
\* promoted a required-marked fragment, without storing it in properties
ObjStepSkip(st, p, propertyName, typeDesc) ==
  IF isString(typeDesc)
  THEN StoreParsed(st, p, propertyName, parseTypeDescription(typeDesc.s))
  ELSE IF st.frags[typeDesc.n].marked
  THEN PushRequired(st, p, propertyName, 1)
  ELSE LinkProperty(st, p, propertyName, typeDesc.n)

\* one pass of the loop of obj, for the property propertyName: typeDesc
ObjStep(st, p, propertyName, typeDesc) ==
  IF isString(typeDesc)
  THEN StoreParsed(st, p, propertyName, parseTypeDescription(typeDesc.s))
  ELSE LinkProperty(IF st.frags[typeDesc.n].marked
                    THEN PushRequired(st, p, propertyName, 1)
                    ELSE st,
                    p, propertyName, typeDesc.n)

\* the loop of obj over the property map pm, from entry i on
RECURSIVE ObjLoop(_, _, _, _)
ObjLoop(st, p, pm, i) ==
  IF i > Len(pm) THEN st
  ELSE ObjLoop(ObjStep(st, p, pm[i].name, pm[i].v), p, pm, i + 1)

\* jsonSchema as obj sets it up before the loop, for the options object op
ObjSchema(op) ==
  [NewFrag EXCEPT
     !.keys = {"type", "properties"}
                \cup (IF Truthy(op.strict) THEN {"additionalProperties"} ELSE {})
                \cup (IF Truthy(op.required) THEN {"required"} ELSE {}),
     !.type = S_object,
     !.required = IF Truthy(op.required) THEN op.required.n ELSE 0]

\* obj (microschema = {}, opts = {}) on the heap (fr, ar) with the options
\* object op: the heap after the call, the fragment returned and the error
obj(bs, fr, ar, self, pm, op) ==
  IF Truthy(op.required) /\ op.required.k # "array"
  THEN [frags |-> fr, arrays |-> ar, res |-> 0,
        err |-> "'required' must be an array"]
  ELSE [res |-> Len(fr) + 1, err |-> ""]
         @@ [ObjLoop([frags |-> Append(fr, ObjSchema(op)), arrays |-> ar],
                     Len(fr) + 1, pm, 1)
               EXCEPT !.frags[Len(fr) + 1] = decorate(bs, self, @)]

\* the number of fragments obj allocates for the property map pm
ObjRoom(pm) == 1 + Cardinality({i \in 1..Len(pm) : isString(pm[i].v)})

OptsOf(o) == IF o = 0 THEN NoOpts ELSE opts[o]

\* obj (microschema, opts); o = 0 when the caller passes no options
Obj(b, pm, o) ==
  /\ Room(ObjRoom(pm))
  /\ \E r \in {obj(builders, frags, arrays, b, pm, OptsOf(o))} :
        /\ frags' = r.frags
        /\ arrays' = r.arrays
        /\ last' = [Call("obj", b, r.res, Pending(builders, b), pm, o, NoArgs, "")
                      EXCEPT !.err = r.err]
  /\ UNCHANGED <<builders, opts>>

\* strictObj that sets opts.strict only when the caller gave none
StrictObjDefault(b, pm, o) ==
  /\ Room(ObjRoom(pm))
  /\ LET options == IF OptsOf(o).strict.k = "undefined"
                    THEN [OptsOf(o) EXCEPT !.strict = JsBool(TRUE)]
                    ELSE OptsOf(o)
     IN \E r \in {obj(builders, frags, arrays, b, pm, options)} :
        /\ opts' = IF o = 0 THEN opts ELSE [opts EXCEPT ![o] = options]
        /\ frags' = r.frags
        /\ arrays' = r.arrays
        /\ last' = [Call("strictObj", b, r.res, Pending(builders, b), pm, o, NoArgs, "")
                      EXCEPT !.err = r.err]
  /\ UNCHANGED builders

\* strictObj (microschema, opts): opts.strict = true, then obj
StrictObj(b, pm, o) ==
  /\ Room(ObjRoom(pm))
  /\ LET options == [OptsOf(o) EXCEPT !.strict = JsBool(TRUE)]
     IN \E r \in {obj(builders, frags, arrays, b, pm, options)} :
        /\ opts' = IF o = 0 THEN opts ELSE [opts EXCEPT ![o] = options]
        /\ frags' = r.frags
        /\ arrays' = r.arrays
        /\ last' = [Call("strictObj", b, r.res, Pending(builders, b), pm, o, NoArgs, "")
                      EXCEPT !.err = r.err]
  /\ UNCHANGED builders

\* string() that clears the pending state of its receiver once applied
StringOneShot(b) ==
  /\ Room(1)
  /\ frags' = Append(frags, decorate(builders, b, TypeFrag(S_string)))
  /\ builders' = IF b = Base THEN builders
                 ELSE [builders EXCEPT ![b].ownRequired = FALSE,
                                       ![b].chained = NoChained]
  /\ last' = Call("string", b, Len(frags) + 1, Pending(builders, b), NoPm, 0, NoArgs, "")
  /\ UNCHANGED <<arrays, opts>>

\* string (opts), called without options
String(b) ==
  /\ Room(1)
  /\ frags' = Append(frags, decorate(builders, b, TypeFrag(S_string)))
  /\ last' = Call("string", b, Len(frags) + 1, Pending(builders, b), NoPm, 0, NoArgs, "")
  /\ UNCHANGED <<builders, arrays, opts>>

\* $ref (reference)
Ref(b, reference) ==
  /\ Room(1)
  /\ frags' = Append(frags, decorate(builders, b,
                 [NewFrag EXCEPT !.keys = {"$ref"}, !.ref = reference]))
  /\ last' = Call("$ref", b, Len(frags) + 1, Pending(builders, b), NoPm, 0, NoArgs, reference)
  /\ UNCHANGED <<builders, arrays, opts>>

\* enum (...enums); the rest arguments are a new array unless the first
\* argument is an array, which is then used itself
Enum(b, enums) ==
  /\ Room(1)
  /\ LET first == IF enums = <<>> THEN JsUndefined ELSE enums[1]
         given == first.k = "array"
         e == IF given THEN first.n ELSE Len(arrays) + 1
         ar == IF given THEN arrays ELSE Append(arrays, enums)
         elem == IF ar[e] = <<>> THEN JsUndefined ELSE ar[e][1]
     IN /\ arrays' = ar
        /\ frags' = Append(frags, decorate(builders, b,
                       [NewFrag EXCEPT !.keys = {"type", "enum"},
                                       !.type = getJsonType(elem),
                                       !.enum = e]))
        /\ last' = Call("enum", b, Len(frags) + 1, Pending(builders, b), NoPm, 0, enums, "")
  /\ UNCHANGED <<builders, opts>>

\* const (value)
Const(b, value) ==
  /\ Room(1)
  /\ frags' = Append(frags, decorate(builders, b,
                 [NewFrag EXCEPT !.keys = {"const"}, !.const = value]))
  /\ last' = Call("const", b, Len(frags) + 1, Pending(builders, b), NoPm, 0, <<value>>, "")
  /\ UNCHANGED <<builders, arrays, opts>>

\* the argument list of anyOf / oneOf / allOf: the first argument when it is
\* an array, otherwise the arguments
DefsOf(ar, args) ==
  IF args # <<>> /\ args[1].k = "array" THEN ar[args[1].n] ELSE args

\* defs.map(strToSchema): a string becomes the new fragment {type: string}
RECURSIVE MapStrToSchema(_, _, _, _)
MapStrToSchema(fr, defs, i, acc) ==
  IF i > Len(defs) THEN [frags |-> fr, items |-> acc]
  ELSE IF isString(defs[i])
  THEN MapStrToSchema(Append(fr, TypeFrag(defs[i].s)), defs, i + 1,
                      Append(acc, JsObj(Len(fr) + 1)))
  ELSE MapStrToSchema(fr, defs, i + 1, Append(acc, defs[i]))

StrCount(defs) == Cardinality({i \in 1..Len(defs) : isString(defs[i])})

\* anyOf (...args)
AnyOf(b, args) ==
  /\ Room(1 + StrCount(DefsOf(arrays, args)))
  /\ LET p == Len(frags) + 1
         m == MapStrToSchema(Append(frags, NewFrag), DefsOf(arrays, args), 1, <<>>)
     IN /\ frags' = [m.frags EXCEPT ![p] = decorate(builders, b,
                       [NewFrag EXCEPT !.keys = {"anyOf"}, !.anyOf = m.items])]
        /\ last' = Call("anyOf", b, p, Pending(builders, b), NoPm, 0, args, "")
  /\ UNCHANGED <<builders, arrays, opts>>

(***************************************************************************)
(* types (...params).  A fragment's type is read as a JavaScript value.    *)
(***************************************************************************)
HasType(f) == "type" \in f.keys /\ (f.typeArr > 0 \/ f.type # <<>>)

\* Object.assign(result, obj): the own enumerable properties of obj, the
\* isRequired symbol included
Assign(result, o) ==
  [keys |-> result.keys \cup o.keys,
   marked |-> o.marked \/ result.marked,
   type |-> IF "type" \in o.keys THEN o.type ELSE result.type,
   typeArr |-> IF "type" \in o.keys THEN o.typeArr ELSE result.typeArr,
   properties |-> IF "properties" \in o.keys THEN o.properties ELSE result.properties,
   required |-> IF "required" \in o.keys THEN o.required ELSE result.required,
   id |-> IF "$id" \in o.keys THEN o.id ELSE result.id,
   definitions |-> IF "definitions" \in o.keys THEN o.definitions ELSE result.definitions,
   ref |-> IF "$ref" \in o.keys THEN o.ref ELSE result.ref,
   enum |-> IF "enum" \in o.keys THEN o.enum ELSE result.enum,
   const |-> IF "const" \in o.keys THEN o.const ELSE result.const,
   anyOf |-> IF "anyOf" \in o.keys THEN o.anyOf ELSE result.anyOf,
   format |-> IF "format" \in o.keys THEN o.format ELSE result.format,
   minLength |-> IF "minLength" \in o.keys THEN o.minLength ELSE result.minLength,
   maxLength |-> IF "maxLength" \in o.keys THEN o.maxLength ELSE result.maxLength,
   oneOf |-> IF "oneOf" \in o.keys THEN o.oneOf ELSE result.oneOf,
   allOf |-> IF "allOf" \in o.keys THEN o.allOf ELSE result.allOf,
   pattern |-> IF "pattern" \in o.keys THEN o.pattern ELSE result.pattern,
   minimum |-> IF "minimum" \in o.keys THEN o.minimum ELSE result.minimum,
   maximum |-> IF "maximum" \in o.keys THEN o.maximum ELSE result.maximum,
   items |-> IF "items" \in o.keys THEN o.items ELSE result.items,
   minItems |-> IF "minItems" \in o.keys THEN o.minItems ELSE result.minItems,
   maxItems |-> IF "maxItems" \in o.keys THEN o.maxItems ELSE result.maxItems,
   uniqueItems |-> IF "uniqueItems" \in o.keys THEN o.uniqueItems ELSE result.uniqueItems]

\* mergeTypes (obj, other): the arrays after the call and obj after the call
mergeTypes(ar, o, other) ==
  IF HasType(o) /\ HasType(other)
  THEN LET first == IF o.typeArr > 0 THEN ar[o.typeArr] ELSE <<JsStr(o.type)>>
           fresh == other.typeArr = 0
           second == IF fresh THEN Len(ar) + 1 ELSE other.typeArr
           ar1 == IF fresh THEN Append(ar, <<JsStr(other.type)>>) ELSE ar
       IN [arrays |-> [ar1 EXCEPT ![second] = @ \o first],
           obj |-> [o EXCEPT !.typeArr = second, !.type = <<>>]]
  ELSE [arrays |-> ar, obj |-> o]

\* the operand of types as the loop reads it: the fragment given, or the
\* fragment parsed from a shorthand string
Operand(st, param) ==
  IF isString(param) THEN parseTypeDescription(param.s).schema
  ELSE st.frags[param.n]

\* one pass of the loop with Object.assign(obj, result) in the place of
\* Object.assign(result, obj): the keys result already has are kept
TypesStepKeep(st, param, m) ==
  [frags |-> IF isString(param) THEN st.frags
             ELSE [st.frags EXCEPT ![param.n] = m.obj],
   arrays |-> m.arrays,
   result |-> Assign(m.obj, st.result)]

\* one pass of the loop of types, m being what mergeTypes returned: the
\* operand fragment is left as mergeTypes rewrote it and is assigned to result
TypesStep(st, param, m) ==
  [frags |-> IF isString(param) THEN st.frags
             ELSE [st.frags EXCEPT ![param.n] = m.obj],
   arrays |-> m.arrays,
   result |-> Assign(st.result, m.obj)]

\* the loop of types over params, from operand i on; st.result is the local
\* object result
RECURSIVE TypesLoop(_, _, _)
TypesLoop(st, params, i) ==
  IF i > Len(params) THEN st
  ELSE TypesLoop(TypesStep(st, params[i],
                           mergeTypes(st.arrays, Operand(st, params[i]), st.result)),
                 params, i + 1)

Types(b, params) ==
  /\ Room(1)
  /\ \E st \in {TypesLoop([frags |-> frags, arrays |-> arrays, result |-> NewFrag],
                          params, 1)} :
        /\ frags' = Append(st.frags, decorate(builders, b, st.result))
        /\ arrays' = st.arrays
        /\ last' = Call("types", b, Len(frags) + 1, Pending(builders, b), NoPm, 0, params, "")
  /\ UNCHANGED <<builders, opts>>

(***************************************************************************)
(* The initial state: the exported base builder, and the objects the       *)
(* caller owns and passes in as options: {strict: false} and               *)
(* {required: ['g']}.                                                      *)
(***************************************************************************)
F == <<"f">>
G == <<"g">>

Init ==
  /\ builders = <<BaseBuilder>>
  /\ frags = <<>>
  /\ arrays = << <<JsStr(G)>> >>
  /\ opts = <<[NoOpts EXCEPT !.strict = JsBool(FALSE)],
              [NoOpts EXCEPT !.required = JsArr(1)]>>
  /\ last = Call("init", 0, 0, Pending(<<BaseBuilder>>, Base), NoPm, 0, NoArgs, "")

Builders == 1..Len(builders)

(***************************************************************************)
(* Chaining: the chaining accesses on every builder, each kind of access   *)
(* at most once on a builder, and string() on every builder.               *)
(***************************************************************************)
ChainFrags == 1

NotYet(b, kind) == \A i \in 1..Len(builders[b].hist) : builders[b].hist[i][1] # kind

Next ==
  \/ \E b \in Builders : NotYet(b, "required") /\ Required(b)
  \/ \E b \in Builders, id \in Ids : NotYet(b, "$id") /\ SetId(b, id)
  \/ \E b \in Builders, d \in Defs : NotYet(b, "definitions") /\ Definitions(b, d)
  \/ \E b \in Builders : Len(frags) < ChainFrags /\ String(b)

Spec == Init /\ [][Next]_vars

(***************************************************************************)
(* Objects: one required carrier, string() as the leaf constructor, and    *)
(* obj / strictObj over property maps of at most MaxProps properties whose *)
(* values are shorthand strings or fragments built before, with and        *)
(* without an options object.                                              *)
(***************************************************************************)
MaxProps == 2

S_string_required == S_string \o <<Colon>> \o S_required

Names == {F, G}

Shorthands == {JsStr(S_string), JsStr(S_string_required)}

\* the fragments built before that are not objects
Leaves == {r \in 1..Len(frags) : "properties" \notin frags[r].keys}

Values == Shorthands \cup {JsObj(r) : r \in Leaves}

AllValues == Shorthands \cup {JsObj(r) : r \in 1..Len(frags)}

Entry(n, v) == [name |-> n, v |-> v]

\* the property maps of exactly n properties, whose values need at most
\* room new fragments
RECURSIVE MapsOfLen(_, _)
MapsOfLen(n, room) ==
  IF n = 0 THEN {<<>>}
  ELSE UNION {{Append(m, Entry(nm, v)) :
                 nm \in Names \ {m[i].name : i \in 1..Len(m)},
                 v \in IF ObjRoom(m) < room THEN Values ELSE Values \ Shorthands} :
              m \in MapsOfLen(n - 1, room)}

PropMaps ==
  UNION {MapsOfLen(n, MaxFrags - Len(frags)) : n \in 0..MaxProps}

OptsArgs == 0..Len(opts)

NextObj ==
  \/ Len(builders) < 2 /\ Required(Base)
  \/ \E b \in Builders : String(b)
  \/ Room(1) /\ \E pm \in PropMaps, o \in OptsArgs : Obj(Base, pm, o)
  \/ Room(1) /\ \E pm \in PropMaps, o \in OptsArgs : StrictObj(Base, pm, o)

SpecObj == Init /\ [][NextObj]_vars

(***************************************************************************)
(* Required carriers: the required carrier and the base builder, every     *)
(* constructor on either, and obj / strictObj over one property.           *)
(***************************************************************************)
OneProp == {<<Entry(nm, v)>> : nm \in Names,
              v \in IF Room(2) THEN AllValues ELSE AllValues \ Shorthands}

OnePropF == {pm \in OneProp : pm[1].name = F}

NextReq ==
  \/ Len(builders) < 2 /\ Required(Base)
  \/ \E b \in Builders : String(b)
  \/ \E b \in Builders : Ref(b, "#r")
  \/ \E b \in Builders : Enum(b, <<JsStr(S_foo)>>)
  \/ \E b \in Builders : Const(b, JsStr(S_foo))
  \/ \E b \in Builders : Types(b, <<JsStr(S_string), JsStr(S_null)>>)
  \/ \E b \in Builders : AnyOf(b, <<JsStr(S_string)>>)
  \/ \E b \in Builders, pm \in OneProp : Obj(b, pm, 0)
  \/ \E b \in Builders, pm \in OneProp : StrictObj(b, pm, 0)

SpecReq == Init /\ [][NextReq]_vars

(***************************************************************************)
(* Decoration: carriers of $id, definitions and required, each obtained    *)
(* from the base builder, and fragments nested in obj and anyOf.           *)
(***************************************************************************)
Fresh(b) == builders[b].hist = <<>>

NextDeco ==
  \/ \E b \in Builders : Fresh(b) /\ Required(b)
  \/ \E b \in Builders : Fresh(b) /\ SetId(b, "x")
  \/ \E b \in Builders : Fresh(b) /\ Definitions(b, "d")
  \/ \E b \in Builders : String(b)
  \/ \E b \in Builders, pm \in OnePropF : Obj(b, pm, 0)
  \/ \E b \in Builders, r \in 1..Len(frags) : AnyOf(b, <<JsObj(r)>>)

SpecDeco == Init /\ [][NextDeco]_vars

(***************************************************************************)
(* Types: types() over at most MaxParams operands that are shorthand       *)
(* strings or fragments built before by string(), $ref() or types().       *)
(***************************************************************************)
MaxParams == 3

Operands == {JsStr(S_string), JsStr(S_null)} \cup {JsObj(r) : r \in 1..Len(frags)}

RECURSIVE ParamsOfLen(_)
ParamsOfLen(n) ==
  IF n = 0 THEN {<<>>}
  ELSE {Append(ps, a) : ps \in ParamsOfLen(n - 1), a \in Operands}

Params == UNION {ParamsOfLen(n) : n \in 1..MaxParams}

NextTypes ==
  \/ Len(builders) < 2 /\ Required(Base)
  \/ \E b \in Builders : String(b)
  \/ Ref(Base, "#r")
  \/ Room(1) /\ \E params \in Params : Types(Base, params)

SpecTypes == Init /\ [][NextTypes]_vars

(***************************************************************************)
(* Properties of chaining.                                                 *)
(***************************************************************************)
Count(seq, a) == Cardinality({i \in 1..Len(seq) : seq[i] = a})

\* the same accesses, in any order
SameAccesses(h1, h2) ==
  /\ Len(h1) = Len(h2)
  /\ \A i \in 1..Len(h1) : Count(h1, h1[i]) = Count(h2, h1[i])

\* what a builder adds to a fragment
Decoration(f) ==
  [required |-> f.marked,
   id |-> IF "$id" \in f.keys THEN <<f.id>> ELSE <<>>,
   definitions |-> IF "definitions" \in f.keys THEN <<f.definitions>> ELSE <<>>]

DecorationOf(pending) ==
  [required |-> pending.required,
   id |-> IF "$id" \in pending.chained.keys THEN <<pending.chained.id>> ELSE <<>>,
   definitions |-> IF "definitions" \in pending.chained.keys
                   THEN <<pending.chained.definitions>> ELSE <<>>]

Constructors ==
  {"obj", "strictObj", "string", "$ref", "enum", "const", "anyOf", "types"}

\* C3: two builders reached from the base builder by the same chaining
\* accesses (required, $id(x), definitions(d)) made in a different order
\* carry equal pending state, and a constructor invoked on either returns
\* equal fragments with equal required marking.
C3_ChainingOrder ==
  \A b1, b2 \in Builders :
    SameAccesses(builders[b1].hist, builders[b2].hist)
    => /\ Pending(builders, b1) = Pending(builders, b2)
       /\ decorate(builders, b1, TypeFrag(S_string))
            = decorate(builders, b2, TypeFrag(S_string))

C3_Witness ==
  \E b1, b2 \in Builders :
    /\ builders[b1].hist = <<<<"required", "">>, <<"$id", "x">>>>
    /\ builders[b2].hist = <<<<"$id", "x">>, <<"required", "">>>>
    /\ Pending(builders, b1).required
    /\ Pending(builders, b1).chained.id = "x"
    /\ last.op = "string" /\ last.self = b2 /\ frags[last.res].marked

\* C4: a constructor call leaves the pending state of every builder as it
\* was, and two constructor calls in a row on one builder return fragments
\* with the same required marker, $id and definitions.
C4_CallKeepsPending ==
  [][Len(frags') > Len(frags) =>
       /\ \A b \in Builders : Pending(builders', b) = Pending(builders, b)
       /\ Decoration(frags'[last'.res]) = DecorationOf(Pending(builders, last'.self))
       /\ (last.op \in Constructors /\ last.res > 0 /\ last.self = last'.self)
            => Decoration(frags'[last'.res]) = Decoration(frags[last.res])]_vars

C4_Witness ==
  /\ Len(frags) >= 2
  /\ last.op = "string" /\ last.self # Base
  /\ frags[last.res] = frags[last.res - 1]
  /\ "$id" \in frags[last.res].keys

\* C5: the base builder never holds pending state, and a constructor invoked
\* on it returns a fragment with no required marker, no $id and no
\* definitions.
C5_BaseNeverMutated ==
  /\ builders[Base] = BaseBuilder
  /\ Pending(builders, Base) = [required |-> FALSE, chained |-> NoChained]
  /\ (last.op = "string" /\ last.self = Base) => frags[last.res] = TypeFrag(S_string)

C5_Witness ==
  /\ last.op = "string" /\ last.self = Base
  /\ Len(builders) = 3
  /\ \E b \in Builders : Pending(builders, b).required
  /\ \E b \in Builders : Pending(builders, b).chained.keys = {"$id", "definitions"}

\* C6: a chaining access returns a builder object other than its receiver
\* and leaves the pending state of the receiver as it was.
C6_ChainingReturnsNewBuilder ==
  last.op \in ChainOps =>
    /\ last.res # last.self
    /\ Pending(builders, last.self) = last.pre

(***************************************************************************)
(* Properties of the fragments.                                            *)
(***************************************************************************)
\* a constructor call that returned a fragment
Returned == Len(frags') > Len(frags)

\* the type of a fragment read as a list of names: a single name is the
\* list of that name
TypeNames(fr, ar, k) ==
  IF "type" \notin fr[k].keys THEN <<>>
  ELSE IF fr[k].typeArr > 0 THEN ar[fr[k].typeArr]
  ELSE <<JsStr(fr[k].type)>>

\* the serializable content of the fragment k: its string keys with their
\* values, nested fragments and arrays by content; the isRequired symbol is
\* no part of it
RECURSIVE View(_, _, _)
View(fr, ar, k) ==
  LET f == fr[k]
  IN [keys |-> f.keys,
      typeIsList |-> "type" \in f.keys /\ f.typeArr > 0,
      type |-> TypeNames(fr, ar, k),
      properties |-> [i \in 1..Len(f.properties) |->
                        [name |-> f.properties[i].name,
                         schema |-> View(fr, ar, f.properties[i].frag)]],
      required |-> IF "required" \in f.keys THEN ar[f.required] ELSE <<>>,
      id |-> f.id, definitions |-> f.definitions, ref |-> f.ref,
      enum |-> IF "enum" \in f.keys THEN ar[f.enum] ELSE <<>>,
      const |-> f.const,
      anyOf |-> [i \in 1..Len(f.anyOf) |-> View(fr, ar, f.anyOf[i].n)],
      format |-> f.format, minLength |-> f.minLength, maxLength |-> f.maxLength,
      oneOf |-> [i \in 1..Len(f.oneOf) |-> View(fr, ar, f.oneOf[i].n)],
      allOf |-> IF "allOf" \in f.keys
                THEN [i \in 1..Len(ar[f.allOf]) |->
                        IF isString(ar[f.allOf][i]) THEN [str |-> ar[f.allOf][i].s]
                        ELSE [schema |-> View(fr, ar, ar[f.allOf][i].n)]]
                ELSE <<>>,
      pattern |-> f.pattern,
      minimum |-> f.minimum, maximum |-> f.maximum,
      items |-> IF "items" \in f.keys THEN <<View(fr, ar, f.items)>> ELSE <<>>,
      minItems |-> f.minItems, maxItems |-> f.maxItems,
      uniqueItems |-> f.uniqueItems]

\* {type: 'string'}
StringView == View(<<TypeFrag(S_string)>>, <<>>, 1)

\* {type: 'object', required: [name], properties: {name: schema}}
RequiredObjectView(name, schema) ==
  [View(<<TypeFrag(S_object)>>, <<>>, 1)
     EXCEPT !.keys = {"type", "properties", "required"},
            !.required = <<JsStr(name)>>,
            !.properties = <<[name |-> name, schema |-> schema]>>]

\* the content of a fragment without what decorate() added to it
Undecorated(v) ==
  [v EXCEPT !.keys = @ \ {"$id", "definitions", "additionalProperties"},
            !.id = "", !.definitions = ""]

HasRequiredOption(typeDesc) ==
  \E i \in 2..Len(Split(typeDesc)) : Split(typeDesc)[i] = S_required

\* C1: obj over one property f given as 'string:required' returns
\* {type:'object', required:[f], properties:{f:{type:'string'}}}; given as a
\* fragment built by any constructor on a required carrier it returns the
\* same with that fragment, its string keys unchanged, under f; a fragment
\* carries the marker exactly when its receiver had required pending; so
\* both forms of a required string return the same serializable fragment.
C1_RequiredEquivalence ==
  [][/\ Returned
          => frags'[last'.res].marked = Pending(builders, last'.self).required
     /\ (Returned /\ last'.op \in {"obj", "strictObj"} /\ Len(last'.pm) = 1) =>
       LET name == last'.pm[1].name
           v == last'.pm[1].v
           result == Undecorated(View(frags', arrays', last'.res))
       IN /\ (isString(v) /\ v.s = S_string_required)
               => result = RequiredObjectView(name, StringView)
          /\ (~isString(v) /\ frags[v.n].marked)
               => /\ result = RequiredObjectView(name, View(frags, arrays, v.n))
                  /\ frags'[v.n] = frags[v.n]
                  /\ frags'[last'.res].properties = <<[name |-> name, frag |-> v.n]>>
          /\ (~isString(v) /\ ~frags[v.n].marked)
               => "required" \notin result.keys]_vars

C1_Witness ==
  /\ last.op = "obj" /\ last.self = Base /\ Len(last.pm) = 1
  /\ ~isString(last.pm[1].v)
  /\ frags[last.pm[1].v.n].marked
  /\ View(frags, arrays, last.pm[1].v.n) = StringView
  /\ View(frags, arrays, last.res) = RequiredObjectView(last.pm[1].name, StringView)

\* C2: the fragment a constructor returns has exactly the $id and the
\* definitions pending on its receiver; the fragments that existed before
\* the call, nested in the result or not, are left as they were, the
\* fragments the call creates for shorthand strings get neither, and so a
\* fragment that embeds a decorated one does not get its $id or definitions.
C2_DecoratesOwnFragment ==
  [][(Returned /\ last'.op \in {"obj", "strictObj", "string", "anyOf"}) =>
       /\ Decoration(frags'[last'.res]) = DecorationOf(Pending(builders, last'.self))
       /\ \A k \in 1..Len(frags) : frags'[k] = frags[k]
       /\ \A k \in (Len(frags) + 1)..Len(frags') :
            k # last'.res => frags'[k].keys \cap {"$id", "definitions"} = {}]_vars

C2_Witness ==
  /\ last.op = "obj" /\ Len(last.pm) = 1 /\ ~isString(last.pm[1].v)
  /\ frags[last.res].keys = {"type", "properties"}
  /\ LET p == last.pm[1].v.n
     IN /\ frags[p].keys = {"type", "properties", "required", "definitions"}
        /\ frags[p].properties # <<>>
        /\ frags[frags[p].properties[1].frag].marked
        /\ frags[frags[p].properties[1].frag].keys = {"type"}

\* the options object the call o names, as obj reads it with strict set
WithStrict(o) == [OptsOf(o) EXCEPT !.strict = JsBool(TRUE)]

\* C7: strictObj(X, O) returns what obj(X, O with strict true) returns, so
\* its result always has additionalProperties: false, whatever strict O
\* carried; obj with no options, or with a strict that is not truthy, never
\* returns that key.
C7_StrictObjIsObjStrict ==
  [][Returned =>
       /\ last'.op = "strictObj"
            => /\ "additionalProperties" \in frags'[last'.res].keys
               /\ LET r == obj(builders, frags, arrays, last'.self, last'.pm,
                               WithStrict(last'.o))
                  IN frags' = r.frags /\ arrays' = r.arrays /\ last'.res = r.res
       /\ (last'.op = "obj" /\ ~Truthy(OptsOf(last'.o).strict))
            => "additionalProperties" \notin frags'[last'.res].keys
       /\ (last'.op = "obj" /\ Truthy(OptsOf(last'.o).strict))
            => "additionalProperties" \in frags'[last'.res].keys]_vars

C7_Witness ==
  /\ last.op = "strictObj" /\ last.o = 1 /\ last.pm # <<>>
  /\ "additionalProperties" \in frags[last.res].keys
  /\ opts[1].strict = JsBool(TRUE)
  /\ \E k \in 1..Len(frags) :
       /\ frags[k].properties # <<>>
       /\ "additionalProperties" \notin frags[k].keys

\* the entries of opts.required when the call is made
Explicit(o) ==
  IF Truthy(OptsOf(o).required) THEN arrays[OptsOf(o).required.n] ELSE <<>>

\* does obj promote the property value v to required
IsShorthandRequired(v) == isString(v) /\ HasRequiredOption(v.s)

IsMarkedFragment(v) == ~isString(v) /\ frags[v.n].marked

\* the names of the entries i, i + 1, ... of pm that flags selects
RECURSIVE NamesAt(_, _, _)
NamesAt(pm, flags, i) ==
  IF i > Len(pm) THEN <<>>
  ELSE (IF flags[i] THEN <<JsStr(pm[i].name)>> ELSE <<>>) \o NamesAt(pm, flags, i + 1)

NamesWhere(pm, i, Test(_)) == NamesAt(pm, [j \in 1..Len(pm) |-> Test(pm[j].v)], i)

IsPromoted(v) == IsShorthandRequired(v) \/ IsMarkedFragment(v)

RequiredOf(fr, ar, k) ==
  IF "required" \in fr[k].keys THEN ar[fr[k].required] ELSE <<>>

ObjReturned == Returned /\ last'.op \in {"obj", "strictObj"}

PropertyNames(fr, k) == {fr[k].properties[i].name : i \in 1..Len(fr[k].properties)}

Elements(seq) == {seq[i] : i \in 1..Len(seq)}

\* C9, as stated: every name in the required list of the fragment obj
\* returns is a key of its properties.
C9_Original ==
  (last.op \in {"obj", "strictObj"} /\ last.res > 0) =>
     \A v \in Elements(RequiredOf(frags, arrays, last.res)) :
        v.s \in PropertyNames(frags, last.res)

\* C9, amended: every name in the required list of the fragment obj returns
\* is a key of its properties or was an entry of opts.required when the call
\* was made.
C9_RequiredNames ==
  [][ObjReturned =>
       \A v \in Elements(RequiredOf(frags', arrays', last'.res)) :
          \/ v.s \in PropertyNames(frags', last'.res)
          \/ v \in Elements(Explicit(last'.o))]_vars

C9_Witness ==
  /\ last.op \in {"obj", "strictObj"} /\ last.o = 2 /\ Len(last.pm) = 1
  /\ last.pm[1].name = F
  /\ ~isString(last.pm[1].v) /\ frags[last.pm[1].v.n].marked
  /\ PropertyNames(frags, last.res) = {F}
  /\ JsStr(G) \in Elements(RequiredOf(frags, arrays, last.res))
  /\ JsStr(F) \in Elements(RequiredOf(frags, arrays, last.res))

\* the type names of an operand of types when the call is made
OperandTypes(v) ==
  IF isString(v) THEN <<JsStr(Head(Split(v.s)))>> ELSE TypeNames(frags, arrays, v.n)

RECURSIVE ConcatTypes(_, _)
ConcatTypes(params, i) ==
  IF i > Len(params) THEN <<>>
  ELSE OperandTypes(params[i]) \o ConcatTypes(params, i + 1)

\* C10: the type of the fragment types(a1, ..., an) returns, read as a list
\* of names, is the type names of a1, ..., an in the order of the arguments.
C10_TypesInArgumentOrder ==
  [][(Returned /\ last'.op = "types") =>
       TypeNames(frags', arrays', last'.res) = ConcatTypes(last'.args, 1)]_vars

(***************************************************************************)
(* Merging: types() over at most MaxMerge operands that are shorthand      *)
(* strings or fragments built before by $ref() or types().                 *)
(***************************************************************************)
MaxMerge == 2

S_string_uri == S_string \o <<Colon>> \o S_uri

MergeOperands == {JsStr(S_string_uri)} \cup {JsObj(r) : r \in 1..Len(frags)}

RECURSIVE MergeParamsOfLen(_)
MergeParamsOfLen(n) ==
  IF n = 0 THEN {<<>>}
  ELSE {Append(ps, a) : ps \in MergeParamsOfLen(n - 1), a \in MergeOperands}

MergeParams == UNION {MergeParamsOfLen(n) : n \in 1..MaxMerge}

NextMerge ==
  \/ \E reference \in {"#r", "#s"} : Ref(Base, reference)
  \/ Room(1) /\ \E params \in MergeParams : Types(Base, params)

SpecMerge == Init /\ [][NextMerge]_vars

\* the keys a fragment can carry besides type, and the value under a key
NonTypeKeys(f) == f.keys \ {"type"}

KeyValue(f, key) ==
  CASE key = "$ref" -> [ref |-> f.ref]
    [] key = "format" -> [format |-> f.format]
    [] key = "minLength" -> [minLength |-> f.minLength]
    [] key = "maxLength" -> [maxLength |-> f.maxLength]
    [] key = "$id" -> [id |-> f.id]
    [] key = "definitions" -> [definitions |-> f.definitions]
    [] key = "enum" -> [enum |-> f.enum]
    [] key = "const" -> [const |-> f.const]
    [] key = "properties" -> [properties |-> f.properties]
    [] key = "required" -> [required |-> f.required]
    [] key = "anyOf" -> [anyOf |-> f.anyOf]
    [] key = "oneOf" -> [oneOf |-> f.oneOf]
    [] key = "allOf" -> [allOf |-> f.allOf]
    [] key = "pattern" -> [pattern |-> f.pattern]
    [] OTHER -> [present |-> TRUE]

\* the operand i of a call of types as it is when the call is made
OperandBefore(params, i) ==
  IF isString(params[i]) THEN parseTypeDescription(params[i].s).schema
  ELSE frags[params[i].n]

Carriers(params, key) ==
  {i \in 1..Len(params) : key \in NonTypeKeys(OperandBefore(params, i))}

LastCarrier(params, key) ==
  CHOOSE i \in Carriers(params, key) : \A j \in Carriers(params, key) : j <= i

\* C11: the fragment types(a1, ..., an) returns has, besides type, exactly
\* the keys of its operands, each with the value of the last operand that
\* carries it; a shorthand string operand carries the keys the shorthand
\* parser gives it.
C11_LastWins ==
  [][(Returned /\ last'.op = "types") =>
       LET params == last'.args
           result == frags'[last'.res]
       IN /\ NonTypeKeys(result)
               = UNION {NonTypeKeys(OperandBefore(params, i)) : i \in 1..Len(params)}
          /\ \A key \in NonTypeKeys(result) :
               KeyValue(result, key)
                 = KeyValue(OperandBefore(params, LastCarrier(params, key)), key)]_vars

C11_Witness ==
  /\ last.op = "types" /\ Len(last.args) = 2
  /\ ~isString(last.args[1]) /\ ~isString(last.args[2])
  /\ frags[last.args[1].n].keys = {"$ref"}
  /\ frags[last.args[2].n].keys = {"$ref"}
  /\ frags[last.args[1].n].ref = "#r"
  /\ frags[last.args[2].n].ref = "#s"
  /\ frags[last.res].keys = {"$ref"}
  /\ frags[last.res].ref = "#s"

(***************************************************************************)
(* Enumerations and constants: enum() in spread form and in array form     *)
(* and const(), over values of every JavaScript type.  The caller holds    *)
(* the arrays ['g'], [['g']] and [1, 2].                                   *)
(***************************************************************************)
MaxEnum == 2
EnumFrags == 2

InitEnum ==
  /\ builders = <<BaseBuilder>>
  /\ frags = <<>>
  /\ arrays = << <<JsStr(G)>>, <<JsArr(1)>>, <<JsNum(1), JsNum(2)>> >>
  /\ opts = <<>>
  /\ last = Call("init", 0, 0, Pending(<<BaseBuilder>>, Base), NoPm, 0, NoArgs, "")

EnumValues ==
  {JsStr(F), JsStr(G), JsNum(1), JsNum(2), JsNull, JsUndefined, JsBool(TRUE)}
    \cup {JsObj(r) : r \in 1..Len(frags)}
    \cup {JsArr(a) : a \in 1..3}

\* a list whose elements are all of one type
Homogeneous(list) == \A i, j \in 1..Len(list) : list[i].k = list[j].k

RECURSIVE EnumArgsOfLen(_)
EnumArgsOfLen(n) ==
  IF n = 0 THEN {<<>>}
  ELSE {Append(vs, v) : vs \in EnumArgsOfLen(n - 1), v \in EnumValues}

\* the argument lists of enum: all values must be of the same type
EnumArgs == {vs \in UNION {EnumArgsOfLen(n) : n \in 1..MaxEnum} : Homogeneous(vs)}

NextEnum ==
  \/ Len(builders) < 2 /\ Required(Base)
  \/ Len(frags) < EnumFrags /\ \E b \in Builders, enums \in EnumArgs : Enum(b, enums)
  \/ Len(frags) < EnumFrags /\ \E b \in Builders, value \in EnumValues : Const(b, value)

SpecEnum == InitEnum /\ [][NextEnum]_vars

IsArrayForm(args) == Len(args) = 1 /\ args[1].k = "array"

\* C12: for a non-empty homogeneous list L, arrays as elements included,
\* enum(...L) followed by enum(L) on the same builder returns two fragments
\* of identical content.
C12_EnumSpreadIsArrayForm ==
  [][(/\ Returned
      /\ last.op = "enum" /\ last'.op = "enum" /\ last.self = last'.self
      /\ last.args # <<>> /\ Homogeneous(last.args)
      /\ IsArrayForm(last'.args)
      /\ arrays[last'.args[1].n] = last.args)
       => View(frags', arrays', last'.res) = View(frags, arrays, last.res)]_vars

\* the type inference rule
TypeRule(v) ==
  CASE v.k = "string" -> S_string
    [] v.k = "array" -> S_array
    [] v.k = "number" -> S_number
    [] v.k \in {"null", "undefined"} -> S_null
    [] OTHER -> S_object

\* the values enum is given: the entries of the array in array form, the
\* arguments otherwise
GivenValues(args) == IF IsArrayForm(args) THEN arrays[args[1].n] ELSE args

\* C13: enum(v1, ..., vn) returns a fragment with the keys type and enum,
\* type being the type the rule gives for v1 and enum the list v1, ..., vn.
C13_EnumInfersFromFirst ==
  [][(Returned /\ last'.op = "enum") =>
       LET result == Undecorated(View(frags', arrays', last'.res))
           values == GivenValues(last'.args)
       IN /\ result.keys = {"type", "enum"}
          /\ result.type = <<JsStr(TypeRule(values[1]))>>
          /\ result.enum = values]_vars

\* C14: const(value) returns a fragment with exactly the keys type and
\* const, type being the type the rule gives for value and const the value.
C14_ConstHasType ==
  [][(Returned /\ last'.op = "const") =>
       LET result == Undecorated(View(frags', arrays', last'.res))
       IN /\ result.keys = {"type", "const"}
          /\ result.type = <<JsStr(TypeRule(last'.args[1]))>>
          /\ result.const = last'.args[1]]_vars

(***************************************************************************)
(* string (opts) with a pattern.  The regular expression literals of the   *)
(* caller are /a/, /a/i and /b/gi; a value of kind "regexp" refers to one  *)
(* of them.                                                                *)
(***************************************************************************)
RegExps ==
  << [source |-> <<"a">>, flags |-> <<>>],
     [source |-> <<"a">>, flags |-> <<"i">>],
     [source |-> <<"b">>, flags |-> <<"g", "i">>] >>

JsRegExp(r) == [k |-> "regexp", s |-> <<>>, n |-> r]

\* the JavaScript string of a sequence of characters, as text
RECURSIVE Text(_)
Text(str) == IF str = <<>> THEN "" ELSE Head(str) \o Text(Tail(str))

\* `${pattern}` for a regular expression: RegExp.prototype.toString
RegExpToString(r) == <<"/">> \o RegExps[r].source \o <<"/">> \o RegExps[r].flags

\* string ({pattern}) that takes the source of every regular expression
StringOptsDropFlags(b, pattern) ==
  /\ Room(1)
  /\ frags' = Append(frags, decorate(builders, b,
                 IF ~Truthy(pattern) THEN TypeFrag(S_string)
                 ELSE [TypeFrag(S_string) EXCEPT
                         !.keys = @ \cup {"pattern"},
                         !.pattern = IF pattern.k = "regexp"
                                     THEN RegExps[pattern.n].source
                                     ELSE pattern.s]))
  /\ last' = Call("string", b, Len(frags) + 1, Pending(builders, b), NoPm, 0,
                  <<pattern>>, "")
  /\ UNCHANGED <<builders, arrays, opts>>

\* string (opts) for opts = {pattern}
StringOpts(b, pattern) ==
  /\ Room(1)
  /\ IF Truthy(pattern) /\ pattern.k = "regexp" /\ RegExps[pattern.n].flags # <<>>
     THEN /\ last' = [Call("string", b, 0, Pending(builders, b), NoPm, 0, <<pattern>>, "")
                        EXCEPT !.err = "JSON schema does not support regexp flags: "
                                         \o Text(RegExpToString(pattern.n))]
          /\ UNCHANGED frags
     ELSE /\ frags' = Append(frags, decorate(builders, b,
                         IF ~Truthy(pattern) THEN TypeFrag(S_string)
                         ELSE [TypeFrag(S_string) EXCEPT
                                 !.keys = @ \cup {"pattern"},
                                 !.pattern = IF pattern.k = "regexp"
                                             THEN RegExps[pattern.n].source
                                             ELSE pattern.s]))
          /\ last' = Call("string", b, Len(frags) + 1, Pending(builders, b), NoPm, 0,
                          <<pattern>>, "")
  /\ UNCHANGED <<builders, arrays, opts>>

Patterns ==
  {JsUndefined, JsStr(<<>>), JsStr(<<"a">>), JsStr(<<"b">>)}
    \cup {JsRegExp(r) : r \in 1..Len(RegExps)}

NextString ==
  \/ Len(builders) < 2 /\ Required(Base)
  \/ \E b \in Builders, pattern \in Patterns : StringOpts(b, pattern)

SpecString == Init /\ [][NextString]_vars

\* a call of string with a pattern that is a regular expression
PatternCall(l) == l.op = "string" /\ Len(l.args) = 1 /\ l.args[1].k = "regexp"

Flagged(l) == RegExps[l.args[1].n].flags # <<>>

\* C15: string({pattern}) with a regular expression that carries a flag
\* raises an error whose message ends with the expression as it is written
\* and returns no fragment; with a flagless one it returns
\* {type:'string', pattern: source}, the fragment that the call with the
\* source as a string, made just before on the same builder, returned.
C15_PatternFlags ==
  [][(PatternCall(last') /\ last' # last) =>
       /\ Flagged(last')
            => /\ frags' = frags
               /\ last'.res = 0
               /\ last'.err = "JSON schema does not support regexp flags: "
                                \o Text(<<"/">> \o RegExps[last'.args[1].n].source
                                          \o <<"/">> \o RegExps[last'.args[1].n].flags)
       /\ ~Flagged(last')
            => /\ Returned /\ last'.res = Len(frags') /\ last'.err = ""
               /\ Undecorated(View(frags', arrays', last'.res))
                    = [StringView EXCEPT !.keys = {"type", "pattern"},
                                         !.pattern = RegExps[last'.args[1].n].source]
               /\ (/\ last.op = "string" /\ last.self = last'.self /\ last.res > 0
                   /\ last.args = <<JsStr(RegExps[last'.args[1].n].source)>>)
                    => View(frags', arrays', last'.res) = View(frags, arrays, last.res)]_vars

C15_Witness ==
  /\ PatternCall(last) /\ Flagged(last)
  /\ last.err = "JSON schema does not support regexp flags: /a/i"
  /\ last.res = 0
  /\ Len(frags) = 2
  /\ frags[1].pattern = <<"a">> /\ frags[2] = frags[1]

(***************************************************************************)
(* The required option of obj and strictObj: the caller holds one options  *)
(* object for each kind of value of required.                              *)
(***************************************************************************)
RequiredOptions ==
  << JsStr(F), JsNum(1), JsObj(1), JsBool(TRUE),
     JsNum(0), JsStr(<<>>), JsBool(FALSE), JsNull, JsArr(1) >>

InitOpts ==
  /\ builders = <<BaseBuilder>>
  /\ frags = <<>>
  /\ arrays = << <<JsStr(G)>> >>
  /\ opts = [i \in 1..Len(RequiredOptions) |->
               [NoOpts EXCEPT !.required = RequiredOptions[i]]]
  /\ last = Call("init", 0, 0, Pending(<<BaseBuilder>>, Base), NoPm, 0, NoArgs, "")

OptsMaps == {<<>>, <<Entry(F, JsStr(S_string))>>}

NextOpts ==
  \/ \E pm \in OptsMaps, o \in OptsArgs : Room(ObjRoom(pm)) /\ Obj(Base, pm, o)
  \/ \E pm \in OptsMaps, o \in OptsArgs : Room(ObjRoom(pm)) /\ StrictObj(Base, pm, o)

SpecOpts == InitOpts /\ [][NextOpts]_vars

\* a call of obj or strictObj whose options carry a required that is not an
\* array
NonArrayRequired(l) ==
  /\ l.op \in {"obj", "strictObj"} /\ l.o > 0
  /\ opts[l.o].required.k \notin {"undefined", "array"}

\* C16: obj and strictObj called with a required option that is provided
\* and is not an array raise an error and return no fragment, whether the
\* value is truthy or falsy.
C16_NonArrayRequiredThrows ==
  [][(NonArrayRequired(last') /\ last' # last) =>
       /\ last'.err # ""
       /\ last'.res = 0
       /\ frags' = frags]_vars

(***************************************************************************)
(* Shorthand strings: obj() over one property given as 'type' followed by  *)
(* at most MaxOptions options.                                             *)
(***************************************************************************)
MaxOptions == 2

ShortTypes == {S_string, S_foo}

ShortOptions ==
  {S_required, S_uri, <<"5">>, <<"1", "2">>, <<"0">>, <<"-", "3">>,
   <<"2", ".", "5">>, <<>>, S_foo}

RECURSIVE ShortOfLen(_)
ShortOfLen(n) ==
  IF n = 0 THEN ShortTypes
  ELSE {str \o <<Colon>> \o option : str \in ShortOfLen(n - 1), option \in ShortOptions}

ShortStrings == UNION {ShortOfLen(n) : n \in 0..MaxOptions}

NextShort ==
  \/ Room(2) /\ \E typeDesc \in ShortStrings : Obj(Base, <<Entry(F, JsStr(typeDesc))>>, 0)
  \/ Room(2) /\ \E typeDesc \in ShortStrings : StrictObj(Base, <<Entry(G, JsStr(typeDesc))>>, 0)

SpecShort == Init /\ [][NextShort]_vars

\* a call of obj or strictObj over one shorthand property that returned
ShortReturned ==
  /\ ObjReturned /\ Len(last'.pm) = 1 /\ isString(last'.pm[1].v)

\* the options of a shorthand string, and those that are positive integer
\* literals
OptionsOf(typeDesc) == Tail(Split(typeDesc))

IsPositiveLiteral(option) ==
  option # <<>> /\ AllDigits(option) /\ DecVal(option, 0) > 0

Recognized(option) ==
  option = S_required \/ option = S_uri \/ IsPositiveLiteral(option)

\* the fragment stored for the one property of the fragment k
PropertySchema(fr, k) == fr[fr[k].properties[1].frag]

\* C17: for a property f given as 't:o1:...:ok' the property fragment has
\* type t, format 'uri' exactly when some option is 'uri', minLength 1 and
\* maxLength n exactly when some option is a positive integer literal n,
\* and f is in the required list exactly when some option is 'required'.
C17_ShorthandOptions ==
  [][ShortReturned =>
       LET options == OptionsOf(last'.pm[1].v.s)
           schema == PropertySchema(frags', last'.res)
           literals == {i \in 1..Len(options) : IsPositiveLiteral(options[i])}
       IN /\ schema.type = Head(Split(last'.pm[1].v.s))
          /\ "format" \in schema.keys <=> \E i \in 1..Len(options) : options[i] = S_uri
          /\ "format" \in schema.keys => schema.format = S_uri
          /\ {"minLength", "maxLength"} \cap schema.keys # {} <=> literals # {}
          /\ literals # {}
               => /\ {"minLength", "maxLength"} \subseteq schema.keys
                  /\ schema.minLength = 1
                  /\ \E i \in literals : schema.maxLength = DecVal(options[i], 0)
          /\ JsStr(last'.pm[1].name) \in Elements(RequiredOf(frags', arrays', last'.res))
               <=> \E i \in 1..Len(options) : options[i] = S_required]_vars

\* C18: a shorthand whose options are all other than 'required', 'uri' and
\* a positive integer literal gives the property fragment {type: t} and no
\* required list, and raises no error.
C18_UnrecognizedIgnored ==
  [][(/\ last'.op \in {"obj", "strictObj"} /\ last' # last
      /\ Len(last'.pm) = 1 /\ isString(last'.pm[1].v)
      /\ \A i \in 1..Len(OptionsOf(last'.pm[1].v.s)) :
            ~Recognized(OptionsOf(last'.pm[1].v.s)[i]))
       => /\ Returned /\ last'.err = ""
          /\ PropertySchema(frags', last'.res) = TypeFrag(Head(Split(last'.pm[1].v.s)))
          /\ "required" \notin frags'[last'.res].keys]_vars

(***************************************************************************)
(* Combinators: anyOf, oneOf and allOf over at most MaxItems items that    *)
(* are strings or fragments, as arguments or in one array.  The caller     *)
(* holds the arrays ['g'], ['string', 'string:required'] and, once a first *)
(* fragment exists, [that fragment, 'string'].                             *)
(***************************************************************************)
MaxItems == 2

\* the combinator calls start while fewer than ItemFrags fragments exist
ItemFrags == 2

\* oneOf (...args)
OneOf(b, args) ==
  /\ Room(1 + StrCount(DefsOf(arrays, args)))
  /\ \E m \in {MapStrToSchema(Append(frags, NewFrag), DefsOf(arrays, args), 1, <<>>)} :
        /\ frags' = [m.frags EXCEPT ![Len(frags) + 1] = decorate(builders, b,
                       [NewFrag EXCEPT !.keys = {"oneOf"}, !.oneOf = m.items])]
        /\ last' = Call("oneOf", b, Len(frags) + 1, Pending(builders, b), NoPm, 0, args, "")
  /\ UNCHANGED <<builders, arrays, opts>>

\* allOf that turns strings into fragments as anyOf does
AllOfNormalized(b, args) ==
  /\ Room(1 + StrCount(DefsOf(arrays, args)))
  /\ \E m \in {MapStrToSchema(Append(frags, NewFrag), DefsOf(arrays, args), 1, <<>>)} :
        /\ arrays' = Append(arrays, m.items)
        /\ frags' = [m.frags EXCEPT ![Len(frags) + 1] = decorate(builders, b,
                       [NewFrag EXCEPT !.keys = {"allOf"}, !.allOf = Len(arrays) + 1])]
        /\ last' = Call("allOf", b, Len(frags) + 1, Pending(builders, b), NoPm, 0, args, "")
  /\ UNCHANGED <<builders, opts>>

\* allOf (...args): the list is the first argument itself when it is an
\* array, the array of the arguments otherwise
AllOf(b, args) ==
  /\ Room(1)
  /\ arrays' = IF args # <<>> /\ args[1].k = "array" THEN arrays ELSE Append(arrays, args)
  /\ frags' = Append(frags, decorate(builders, b,
                 [NewFrag EXCEPT !.keys = {"allOf"},
                                 !.allOf = IF args # <<>> /\ args[1].k = "array"
                                           THEN args[1].n ELSE Len(arrays) + 1]))
  /\ last' = Call("allOf", b, Len(frags) + 1, Pending(builders, b), NoPm, 0, args, "")
  /\ UNCHANGED <<builders, opts>>

InitItems ==
  /\ builders = <<BaseBuilder>>
  /\ frags = <<>>
  /\ arrays = << <<JsStr(G)>>,
                 <<JsStr(S_string), JsStr(S_string_required)>>,
                 <<JsObj(1), JsStr(S_string)>> >>
  /\ opts = <<>>
  /\ last = Call("init", 0, 0, Pending(<<BaseBuilder>>, Base), NoPm, 0, NoArgs, "")

Items ==
  {JsStr(S_string), JsStr(S_string_required)} \cup {JsObj(r) : r \in 1..Len(frags)}

RECURSIVE ItemsOfLen(_)
ItemsOfLen(n) ==
  IF n = 0 THEN {<<>>}
  ELSE {Append(is, i) : is \in ItemsOfLen(n - 1), i \in Items}

\* the argument lists: items, or one of the caller's arrays whose fragments
\* exist
ItemArgs ==
  UNION {ItemsOfLen(n) : n \in 1..MaxItems}
    \cup {<<JsArr(a)>> : a \in IF frags = <<>> THEN {1, 2} ELSE {1, 2, 3}}

NextItems ==
  \/ Len(frags) < ItemFrags /\ String(Base)
  \/ Len(frags) < ItemFrags /\ \E args \in ItemArgs : AnyOf(Base, args)
  \/ Len(frags) < ItemFrags /\ \E args \in ItemArgs : OneOf(Base, args)
  \/ Len(frags) < ItemFrags /\ \E args \in ItemArgs : AllOf(Base, args)

SpecItems == InitItems /\ [][NextItems]_vars

\* the items a combinator is given: the entries of the first argument when
\* it is an array, the arguments otherwise
ItemsGiven(args) ==
  IF args # <<>> /\ args[1].k = "array" THEN arrays[args[1].n] ELSE args

\* the list under the key of the combinator in the fragment k
ListOf(fr, ar, k) ==
  IF "anyOf" \in fr[k].keys THEN fr[k].anyOf
  ELSE IF "oneOf" \in fr[k].keys THEN fr[k].oneOf
  ELSE ar[fr[k].allOf]

\* C19: anyOf and oneOf return {anyOf: list} / {oneOf: list} holding, in the
\* order given, {type: s} for a string s, options not parsed, and the
\* fragment itself for a fragment; allOf returns {allOf: list} holding the
\* items as given, strings included; an array as first argument stands for
\* its entries; the fragments that existed are left as they were.
C19_Combinators ==
  [][(Returned /\ last'.op \in {"anyOf", "oneOf", "allOf"}) =>
       LET given == ItemsGiven(last'.args)
           list == ListOf(frags', arrays', last'.res)
       IN /\ frags'[last'.res].keys = {last'.op}
          /\ Len(list) = Len(given)
          /\ \A k \in 1..Len(frags) : frags'[k] = frags[k]
          /\ last'.op = "allOf" => list = given
          /\ last'.op # "allOf" =>
               \A i \in 1..Len(given) :
                  IF isString(given[i])
                  THEN /\ list[i].k = "object" /\ list[i].n > Len(frags)
                       /\ frags'[list[i].n] = TypeFrag(given[i].s)
                  ELSE list[i] = given[i]]_vars

C19_Witness ==
  /\ Len(frags) = 3
  /\ frags[1].keys = {"allOf"}
  /\ arrays[frags[1].allOf] = <<JsStr(S_string), JsStr(S_string_required)>>
  /\ last.op = "anyOf" /\ last.args = <<JsArr(1)>> /\ last.res = 2
  /\ frags[2].anyOf = <<JsObj(3)>>
  /\ frags[3] = TypeFrag(G)

\* the arrays a fragment holds by reference
ArraysOf(f) ==
  (IF "required" \in f.keys THEN {f.required} ELSE {})
    \cup (IF "enum" \in f.keys THEN {f.enum} ELSE {})
    \cup (IF "allOf" \in f.keys THEN {f.allOf} ELSE {})
    \cup (IF f.typeArr > 0 THEN {f.typeArr} ELSE {})

\* the arrays the arguments of a call hold: the required option and the
\* arguments that are arrays
ArraysGiven(l) ==
  (IF l.o > 0 /\ opts[l.o].required.k = "array" THEN {opts[l.o].required.n} ELSE {})
    \cup {l.args[i].n : i \in {j \in 1..Len(l.args) : l.args[j].k = "array"}}

\* the call recorded in l2 repeats the call recorded in l1
SameCall(l1, l2) ==
  /\ l1.op = l2.op /\ l1.self = l2.self /\ l1.pm = l2.pm /\ l1.o = l2.o
  /\ l1.args = l2.args /\ l1.arg = l2.arg

\* C20: a constructor called a second time with the same arguments returns
\* a fragment equal in content to the first, the second call leaves the
\* first result as it was, and the two results hold no array in common
\* with each other or with the arguments.
C20_FreshFragments ==
  [][(Returned /\ last.res > 0 /\ last.op \in Constructors /\ SameCall(last, last')) =>
       /\ View(frags', arrays', last'.res) = View(frags', arrays', last.res)
       /\ View(frags', arrays', last.res) = View(frags, arrays, last.res)
       /\ ArraysOf(frags'[last'.res]) \cap ArraysOf(frags'[last.res]) = {}
       /\ ArraysOf(frags'[last'.res]) \cap ArraysGiven(last') = {}]_vars

(***************************************************************************)
(* Numbers: number(opts) and integer(opts) on the base builder and on the  *)
(* required carrier.  The caller holds one options object, with any of     *)
(* min, max and integer.                                                   *)
(***************************************************************************)
S_integer == <<"i", "n", "t", "e", "g", "e", "r">>

\* the calls start while fewer than NumFrags fragments exist
NumFrags == 2

\* value != null
NotNullish(v) == v.k \notin {"null", "undefined"}

\* number (opts), for the options object op ({} when opts is falsy)
number(bs, self, op) ==
  decorate(bs, self,
    [NewFrag EXCEPT
       !.keys = {"type"} \cup (IF NotNullish(op.min) THEN {"minimum"} ELSE {})
                         \cup (IF NotNullish(op.max) THEN {"maximum"} ELSE {}),
       !.type = IF Truthy(op.integer) THEN S_integer ELSE S_number,
       !.minimum = IF NotNullish(op.min) THEN op.min ELSE JsUndefined,
       !.maximum = IF NotNullish(op.max) THEN op.max ELSE JsUndefined])

\* number (opts); o = 0 when the caller passes no options
Number(b, o) ==
  /\ Room(1)
  /\ frags' = Append(frags, number(builders, b, OptsOf(o)))
  /\ last' = Call("number", b, Len(frags) + 1, Pending(builders, b), NoPm, o, NoArgs, "")
  /\ UNCHANGED <<builders, arrays, opts>>

\* integer (opts) with the spread after the key: {integer: true, ...opts}
IntegerSpreadLast(b, o) ==
  /\ Room(1)
  /\ frags' = Append(frags, number(builders, b,
                 IF OptsOf(o).integer.k = "undefined"
                 THEN [OptsOf(o) EXCEPT !.integer = JsBool(TRUE)]
                 ELSE OptsOf(o)))
  /\ last' = Call("integer", b, Len(frags) + 1, Pending(builders, b), NoPm, o, NoArgs, "")
  /\ UNCHANGED <<builders, arrays, opts>>

\* integer (opts): number({...opts, integer: true}), the object literal
\* being a new object
Integer(b, o) ==
  /\ Room(1)
  /\ frags' = Append(frags, number(builders, b,
                               [OptsOf(o) EXCEPT !.integer = JsBool(TRUE)]))
  /\ last' = Call("integer", b, Len(frags) + 1, Pending(builders, b), NoPm, o, NoArgs, "")
  /\ UNCHANGED <<builders, arrays, opts>>

Bounds == {JsUndefined, JsNull, JsNum(0), JsNum(1)}

IntegerFlags == {JsUndefined, JsBool(TRUE), JsBool(FALSE), JsNum(0), JsNum(1)}

InitNumber ==
  /\ builders = <<BaseBuilder>>
  /\ frags = <<>>
  /\ arrays = <<>>
  /\ \E mn \in Bounds, mx \in Bounds, i \in IntegerFlags :
        opts = <<[NoOpts EXCEPT !.min = mn, !.max = mx, !.integer = i]>>
  /\ last = Call("init", 0, 0, Pending(<<BaseBuilder>>, Base), NoPm, 0, NoArgs, "")

NextNumber ==
  \/ Len(builders) < 2 /\ Required(Base)
  \/ Len(frags) < NumFrags /\ \E b \in Builders, o \in OptsArgs : Number(b, o)
  \/ Len(frags) < NumFrags /\ \E b \in Builders, o \in OptsArgs : Integer(b, o)

SpecNumber == InitNumber /\ [][NextNumber]_vars

\* the fragment {type, minimum?, maximum?} for the options object op, the
\* bounds being present when they are neither null nor undefined
NumberFragment(type, op) ==
  [NewFrag EXCEPT
     !.keys = {"type"} \cup (IF op.min.k \in {"null", "undefined"} THEN {} ELSE {"minimum"})
                       \cup (IF op.max.k \in {"null", "undefined"} THEN {} ELSE {"maximum"}),
     !.type = type,
     !.minimum = IF op.min.k \in {"null", "undefined"} THEN JsUndefined ELSE op.min,
     !.maximum = IF op.max.k \in {"null", "undefined"} THEN JsUndefined ELSE op.max]

\* C21: number(opts) returns type 'integer' when opts.integer is truthy and
\* 'number' otherwise, with minimum present exactly when min is neither
\* null nor undefined and maximum likewise, a bound of 0 being kept;
\* integer(opts) returns the same with type 'integer', also when opts gives
\* integer: false or is absent.
C21_NumberAndInteger ==
  [][(Returned /\ last'.op \in {"number", "integer"}) =>
       View(frags', arrays', last'.res) =
         View(<<NumberFragment(IF last'.op = "integer" \/ Truthy(OptsOf(last'.o).integer)
                               THEN S_integer ELSE S_number,
                               OptsOf(last'.o))>>, <<>>, 1)]_vars

C21_Witness ==
  /\ opts[1].min = JsNum(0) /\ opts[1].max = JsNull /\ opts[1].integer = JsBool(FALSE)
  /\ Len(frags) = 2
  /\ last.op = "integer" /\ last.o = 1 /\ last.res = 2
  /\ frags[2].keys = {"type", "minimum"} /\ frags[2].type = S_integer
  /\ frags[2].minimum = JsNum(0)
  /\ frags[1].type = S_number /\ frags[1].keys = {"type", "minimum"}

(***************************************************************************)
(* Arrays: arrayOf(schemaOrType, opts) over a type name or a fragment      *)
(* built before.  The caller holds one options object, with any of         *)
(* minItems, maxItems and uniqueItems.                                     *)
(***************************************************************************)
\* the calls start while fewer than ArrFrags fragments exist
ArrFrags == 2

\* the three options set when they are truthy
SetItemOptionsTruthy(f, op) ==
  [f EXCEPT
     !.keys = @ \cup (IF Truthy(op.minItems) THEN {"minItems"} ELSE {})
                \cup (IF Truthy(op.maxItems) THEN {"maxItems"} ELSE {})
                \cup (IF Truthy(op.uniqueItems) THEN {"uniqueItems"} ELSE {}),
     !.minItems = IF Truthy(op.minItems) THEN op.minItems ELSE @,
     !.maxItems = IF Truthy(op.maxItems) THEN op.maxItems ELSE @,
     !.uniqueItems = IF Truthy(op.uniqueItems) THEN op.uniqueItems ELSE @]

\* if (minItems !== undefined) s.minItems = minItems, and so on
SetItemOptions(f, op) ==
  [f EXCEPT
     !.keys = @ \cup (IF op.minItems.k # "undefined" THEN {"minItems"} ELSE {})
                \cup (IF op.maxItems.k # "undefined" THEN {"maxItems"} ELSE {})
                \cup (IF op.uniqueItems.k # "undefined" THEN {"uniqueItems"} ELSE {}),
     !.minItems = IF op.minItems.k # "undefined" THEN op.minItems ELSE @,
     !.maxItems = IF op.maxItems.k # "undefined" THEN op.maxItems ELSE @,
     !.uniqueItems = IF op.uniqueItems.k # "undefined" THEN op.uniqueItems ELSE @]

\* arrayOf (schemaOrType, opts); o = 0 when the caller passes no options
ArrayOf(b, schemaOrType, o) ==
  /\ Room(1 + StrCount(<<schemaOrType>>))
  /\ \E m \in {MapStrToSchema(frags, <<schemaOrType>>, 1, <<>>)} :
        /\ frags' = Append(m.frags,
                      SetItemOptions(decorate(builders, b,
                                       [NewFrag EXCEPT !.keys = {"type", "items"},
                                                       !.type = S_array,
                                                       !.items = m.items[1].n]),
                                     OptsOf(o)))
        /\ last' = Call("arrayOf", b, Len(m.frags) + 1, Pending(builders, b), NoPm, o,
                        <<schemaOrType>>, "")
  /\ UNCHANGED <<builders, arrays, opts>>

ItemCounts == {JsUndefined, JsNum(0), JsNum(1)}

UniqueFlags == {JsUndefined, JsBool(TRUE), JsBool(FALSE)}

InitArray ==
  /\ builders = <<BaseBuilder>>
  /\ frags = <<>>
  /\ arrays = <<>>
  /\ \E mn \in ItemCounts, mx \in ItemCounts \cup {JsNull}, u \in UniqueFlags :
        opts = <<[NoOpts EXCEPT !.minItems = mn, !.maxItems = mx, !.uniqueItems = u]>>
  /\ last = Call("init", 0, 0, Pending(<<BaseBuilder>>, Base), NoPm, 0, NoArgs, "")

ItemSchemas == {JsStr(S_integer)} \cup {JsObj(r) : r \in 1..Len(frags)}

NextArray ==
  \/ Len(builders) < 2 /\ Required(Base)
  \/ Len(frags) < ArrFrags /\ \E b \in Builders : String(b)
  \/ Len(frags) < ArrFrags
       /\ \E b \in Builders, i \in ItemSchemas, o \in OptsArgs : ArrayOf(b, i, o)

SpecArray == InitArray /\ [][NextArray]_vars

\* the keys the options object op provides
ProvidedItemKeys(op) ==
  {key \in {"minItems", "maxItems", "uniqueItems"} :
     (CASE key = "minItems" -> op.minItems
        [] key = "maxItems" -> op.maxItems
        [] OTHER -> op.uniqueItems) # JsUndefined}

\* C22: arrayOf(item, options) returns {type: 'array', items: I} where I is
\* a new {type: item} for a string and the fragment given itself for a
\* fragment, plus each of minItems, maxItems, uniqueItems the options
\* provide, with the value provided, 0 and false included, and no key for
\* an option that is not provided.
C22_ArrayOf ==
  [][(Returned /\ last'.op = "arrayOf") =>
       \E f \in {frags'[last'.res]}, item \in {last'.args[1]}, op \in {OptsOf(last'.o)} :
          /\ f.keys = {"type", "items"} \cup ProvidedItemKeys(op)
          /\ f.type = S_array /\ f.typeArr = 0
          /\ IF isString(item)
             THEN f.items > Len(frags) /\ frags'[f.items] = TypeFrag(item.s)
             ELSE f.items = item.n /\ frags'[item.n] = frags[item.n]
          /\ "minItems" \in f.keys => f.minItems = op.minItems
          /\ "maxItems" \in f.keys => f.maxItems = op.maxItems
          /\ "uniqueItems" \in f.keys => f.uniqueItems = op.uniqueItems]_vars

C22_Witness ==
  /\ opts[1].minItems = JsNum(0) /\ opts[1].maxItems = JsUndefined
  /\ opts[1].uniqueItems = JsBool(FALSE)
  /\ Len(frags) = 2
  /\ frags[1] = TypeFrag(S_string)
  /\ last.op = "arrayOf" /\ last.args = <<JsObj(1)>> /\ last.o = 1 /\ last.res = 2
  /\ frags[2].keys = {"type", "items", "minItems", "uniqueItems"}
  /\ frags[2].items = 1
  /\ frags[2].minItems = JsNum(0) /\ frags[2].uniqueItems = JsBool(FALSE)

\* C23: obj() called with no arguments returns the fragment
\* {type: 'object'} with no other key.
C23_ObjWithoutArguments ==
  [][(Returned /\ last'.op = "obj" /\ last'.self = Base
        /\ last'.pm = <<>> /\ last'.o = 0) =>
       /\ frags'[last'.res].keys = {"type"}
       /\ frags'[last'.res].type = S_object]_vars

\* the fragments among the operands of a call of types
OperandFragments(l) ==
  {l.args[i].n : i \in {j \in 1..Len(l.args) : ~isString(l.args[j])}}

\* C24: types(a1, ..., an) leaves every fragment passed to it unchanged:
\* each operand fragment has the same keys and the same type value, a
\* single name or a list of the same elements, after the call as before,
\* and the type list of the result is not the list object of an operand.
C24_TypesLeavesOperands ==
  [][(Returned /\ last'.op = "types") =>
       \A r \in OperandFragments(last') :
          /\ frags'[r].keys = frags[r].keys
          /\ (frags'[r].typeArr > 0) = (frags[r].typeArr > 0)
          /\ TypeNames(frags', arrays', r) = TypeNames(frags, arrays, r)
          /\ frags'[last'.res].typeArr > 0 =>
               frags'[last'.res].typeArr # frags'[r].typeArr]_vars

\* C25: obj and strictObj leave their options argument unchanged: the
\* caller's options object has the same keys and values after the call as
\* before, strict included, and the caller's required list has the same
\* elements, also when properties are marked required.
C25_OptionsUnchanged ==
  [][(last' # last /\ last'.op \in {"obj", "strictObj"} /\ last'.o > 0) =>
       /\ opts'[last'.o] = opts[last'.o]
       /\ opts[last'.o].required.k = "array" =>
            arrays'[opts[last'.o].required.n] = arrays[opts[last'.o].required.n]]_vars

\* C26: a fragment carries the hidden required marker only if the
\* constructor call that returned it was invoked on a builder whose pending
\* required flag was set: a constructor invoked on the base builder or on
\* a carrier without the flag returns an unmarked fragment, whatever its
\* arguments are.
C26_MarkerOnlyFromRequiredCarrier ==
  [][(Returned /\ last'.res > 0) =>
       (frags'[last'.res].marked => last'.pre.required)]_vars

====
